---- MODULE Spec2Model ----
(***************************************************************************)
(* Model of zeroize-alloc (src/src/lib.rs): the volatile zero primitive    *)
(* `zero`, the scoped adapter ZeroizingAllocator (trait Allocator) and the *)
(* global adapter ZeroizingGlobalAllocator (trait GlobalAlloc), over an    *)
(* opaque wrapped allocator and a small byte-addressed heap.               *)
(*                                                                         *)
(* A call on an adapter is run by a thread in steps: the call itself, one  *)
(* step per volatile byte store of `zero`, the loop exit with the compiler *)
(* fence, the forwarded call to the wrapped allocator, and the return.     *)
(***************************************************************************)
EXTENDS Integers, Sequences, FiniteSets, TLC

VARIABLES
    mem,      \* the heap: address -> byte
    live,     \* the wrapped allocator's live blocks: set of [ptr, layout]
    adapter,  \* the adapter the program uses: "scoped" or "global"
    cfgTest,  \* TRUE iff the crate is built with cfg(test)
    pc,       \* per thread: "idle", "zero", "forward", "done"
    frame,    \* per thread: the adapter call in progress (arguments, loop index, record of what it did)
    owned     \* per thread: the blocks the caller holds, with the bytes it last saw in them

vars == <<mem, live, adapter, cfgTest, pc, frame, owned>>

\* ------------------------------------------------------------------ bounds
MemSize == 3      \* heap addresses 1..MemSize
MaxByte == 1      \* byte values 0..MaxByte
MaxSize == 2      \* layout.size() in 0..MaxSize

Threads == {"t1", "t2"}
MainThread == "t1"

Null == 0
Addr == 1..MemSize
Byte == 0..MaxByte
Aligns == {1, 2}
Layouts == [size : 0..MaxSize, align : Aligns]

Range(ptr, size) == {ptr + k : k \in 0..(size - 1)}
Min(a, b) == IF a < b THEN a ELSE b

\* ------------------------------------------------- the wrapped allocator A
\* The adapters are generic over A (`A: Allocator`, `A: GlobalAlloc`); A is
\* modelled by the contract of those traits: it hands out an aligned range that
\* overlaps no live block, or fails; alloc_zeroed hands it out zero-filled;
\* deallocate takes the block back and writes nothing.
WrappedFits(p, layout) ==
    /\ p % layout.align = 0
    /\ p + layout.size - 1 <= MemSize
    /\ \A b \in live : /\ b.ptr # p
                       /\ Range(b.ptr, b.layout.size) \cap Range(p, layout.size) = {}

WrappedResults(layout) == {Null} \cup {p \in Addr : WrappedFits(p, layout)}

WrappedLiveAfterAlloc(r, layout) ==
    IF r = Null THEN live ELSE live \cup {[ptr |-> r, layout |-> layout]}

WrappedMemAfterAlloc(target, r, layout) ==
    IF r # Null /\ target = "alloc_zeroed"
    THEN [a \in Addr |-> IF a \in Range(r, layout.size) THEN 0 ELSE mem[a]]
    ELSE mem

WrappedLiveAfterDealloc(p, layout) == live \ {[ptr |-> p, layout |-> layout]}

\* ---------------------------------------------------------- fn zero (11-16)
ZeroByte == 0

\* `for i in 0..size` (with the loop bound off by one, either way)
ZeroLoopCondShort(i, size) == i < size - 1
ZeroLoopCondInclusive(i, size) == i <= size
ZeroLoopCond(i, size) == i < size

\* `ptr.offset(i as isize)` (with the offset one too far)
ZeroTargetShifted(ptr, i) == ptr + i + 1
ZeroTarget(ptr, i) == ptr + i

\* ------------------------------------------------------ delegation points
\* `self.0.allocate(layout)`: the layout handed on, and the value returned.
AllocateArg(layout) == layout
AllocateRet(r) == r

\* `self.0.alloc(layout)`
AllocTargetZeroed == "alloc_zeroed"
AllocTarget == "alloc"
AllocArg(layout) == layout
AllocRetDangling(r) == IF r = Null THEN 1 ELSE r
AllocRet(r) == r

\* `self.0.alloc_zeroed(layout)`
AllocZeroedTarget == "alloc_zeroed"
AllocZeroedArg(layout) == layout
AllocZeroedRet(r) == r

\* `zero(ptr.as_ptr(), layout.size())` / `zero(ptr, layout.size())`
ZeroCountLessOne(layout) == layout.size - 1
ZeroCount(layout) == layout.size

\* `self.0.deallocate(ptr.clone(), layout)` / `self.0.dealloc(ptr, layout)`
ForwardPtr(ptr) == ptr
ForwardLayoutRealigned(layout) == [layout EXCEPT !.align = 1]
ForwardLayout(layout) == layout

\* The statement order of deallocate / dealloc: zero, then the forwarded call.
DeallocPlanSwapped == <<"forward", "zero">>
DeallocPlan == <<"zero", "forward">>

\* `#[cfg(not(test))]` stands before the forwarded call of the global adapter
\* only; in the scoped adapter the attribute is commented out.
ForwardCompiledInverted == adapter = "scoped" \/ cfgTest
ForwardCompiled == adapter = "scoped" \/ ~cfgTest

FirstPhase == DeallocPlan[1]
NextPhase(ph) == IF ph = DeallocPlan[1] THEN DeallocPlan[2] ELSE "done"

\* ------------------------------------------------------------------ state
NoFrame ==
    [op |-> "none", ptr |-> Null,
     layout |-> [size |-> 0, align |-> 1], i |-> 0,
     fwd |-> <<>>, ret |-> Null, wret |-> Null, written |-> {},
     old |-> <<>>, resized |-> FALSE, newPtr |-> Null, newSize |-> 0]

Contents(m, ptr, size) == [k \in 1..size |-> m[ptr + k - 1]]

Block(ptr, layout, m, resized) ==
    [ptr |-> ptr, layout |-> layout,
     data |-> Contents(m, ptr, layout.size), resized |-> resized]

Init ==
    /\ \E g \in Byte : mem = [a \in Addr |-> g]
    /\ live = {}
    /\ adapter \in {"scoped", "global"}
    /\ cfgTest \in BOOLEAN
    /\ pc = [t \in Threads |-> "idle"]
    /\ frame = [t \in Threads |-> NoFrame]
    /\ owned = [t \in Threads |-> {}]


\* ---------------------------------------------------------------- helpers
SetFrame(t, f) == frame' = [frame EXCEPT ![t] = f]
Goto(t, label) == pc' = [pc EXCEPT ![t] = label]

Call(op, ptr, layout) == [op |-> op, ptr |-> ptr, layout |-> layout]

\* One allocation request made on an adapter: the single delegating expression
\* of allocate / alloc / alloc_zeroed. `target` is the operation of A that is
\* called, `arg` the layout handed to it, `wr` what A returns and `ret` what the
\* adapter returns.
Delegate(t, op, target, layout, arg, wr, ret) ==
    /\ live' = WrappedLiveAfterAlloc(wr, arg)
    /\ mem' = WrappedMemAfterAlloc(target, wr, arg)
    /\ SetFrame(t, [NoFrame EXCEPT !.op = op, !.layout = layout,
                                   !.fwd = <<Call(target, Null, arg)>>,
                                   !.wret = wr, !.ret = ret])
    /\ owned' = [owned EXCEPT ![t] =
                    IF ret = Null THEN @
                    ELSE @ \cup {Block(ret, layout, mem', FALSE)}]
    /\ Goto(t, "done")
    /\ UNCHANGED <<adapter, cfgTest>>

\* ----------------------------------------- ZeroizingAllocator (lines 18-33)
Allocate(t, layout) ==
    /\ adapter = "scoped"
    /\ pc[t] = "idle"
    /\ \E wr \in WrappedResults(AllocateArg(layout)) :
          Delegate(t, "allocate", "allocate", layout,
                   AllocateArg(layout), wr, AllocateRet(wr))

Deallocate(t, b) ==
    /\ pc[t] = "idle"
    /\ b \in owned[t]
    /\ adapter = "scoped"
    /\ SetFrame(t, [NoFrame EXCEPT !.op = "deallocate",
                                   !.ptr = b.ptr, !.layout = b.layout, !.old = b.data])
    /\ owned' = [owned EXCEPT ![t] = @ \ {b}]
    /\ Goto(t, FirstPhase)
    /\ UNCHANGED <<mem, live, adapter, cfgTest>>

\* ----------------------------------- ZeroizingGlobalAllocator (lines 35-55)
\* GlobalAlloc's contract: the layout of a request has non-zero size.
GlobalLayouts == {l \in Layouts : l.size > 0}

Alloc(t, layout) ==
    /\ adapter = "global"
    /\ pc[t] = "idle"
    /\ layout \in GlobalLayouts
    /\ \E wr \in WrappedResults(AllocArg(layout)) :
          Delegate(t, "alloc", AllocTarget, layout,
                   AllocArg(layout), wr, AllocRet(wr))

AllocZeroed(t, layout) ==
    /\ adapter = "global"
    /\ pc[t] = "idle"
    /\ layout \in GlobalLayouts
    /\ \E wr \in WrappedResults(AllocZeroedArg(layout)) :
          Delegate(t, "alloc_zeroed", AllocZeroedTarget, layout,
                   AllocZeroedArg(layout), wr, AllocZeroedRet(wr))

Dealloc(t, b) ==
    /\ pc[t] = "idle"
    /\ b \in owned[t]
    /\ adapter = "global"
    /\ SetFrame(t, [NoFrame EXCEPT !.op = "dealloc",
                                   !.ptr = b.ptr, !.layout = b.layout, !.old = b.data,
                                   !.resized = b.resized])
    /\ owned' = [owned EXCEPT ![t] = @ \ {b}]
    /\ Goto(t, FirstPhase)
    /\ UNCHANGED <<mem, live, adapter, cfgTest>>

\* GlobalAlloc::realloc is not overridden by the impl, so a resize runs the
\* trait's provided method on the adapter: self.alloc(new_layout); if the result
\* is not null, copy min(old size, new size) bytes and self.dealloc(ptr, layout);
\* return the new pointer. This is what Vec growth does in test_static and prop.
Realloc(t, b, newSize) ==
    /\ pc[t] = "idle"
    /\ b \in owned[t]
    /\ adapter = "global"
    /\ newSize \in 1..MaxSize
    /\ LET newLayout == [size |-> newSize, align |-> b.layout.align]
           n == Min(b.layout.size, newSize)
       IN \E wr \in WrappedResults(AllocArg(newLayout)) :
          LET new == AllocRet(wr)
              m1 == WrappedMemAfterAlloc(AllocTarget, wr, AllocArg(newLayout))
              m2 == [a \in Addr |-> IF new # Null /\ a \in Range(new, n)
                                    THEN m1[b.ptr + (a - new)] ELSE m1[a]]
              f == [NoFrame EXCEPT !.op = "realloc",
                                   !.ptr = b.ptr, !.layout = b.layout, !.old = b.data,
                                   !.fwd = <<Call(AllocTarget, Null, AllocArg(newLayout))>>,
                                   !.wret = wr, !.ret = new,
                                   !.newPtr = new, !.newSize = newSize]
          IN /\ live' = WrappedLiveAfterAlloc(wr, AllocArg(newLayout))
             /\ mem' = m2
             /\ SetFrame(t, f)
             /\ owned' = [owned EXCEPT ![t] =
                             IF new = Null THEN @
                             ELSE (@ \ {b}) \cup {Block(new, newLayout, m2, TRUE)}]
             /\ Goto(t, IF new = Null THEN "done" ELSE FirstPhase)
             /\ UNCHANGED <<adapter, cfgTest>>

\* ------------------------------------------------- the body of a free call
\* One iteration of zero's loop: `core::ptr::write_volatile(ptr.offset(i), 0)`.
ZeroStep(t) ==
    /\ pc[t] = "zero"
    /\ ZeroLoopCond(frame[t].i, ZeroCount(frame[t].layout))
    /\ LET a == ZeroTarget(frame[t].ptr, frame[t].i)
       IN /\ a \in Addr
          /\ mem' = [mem EXCEPT ![a] = ZeroByte]
          /\ SetFrame(t, [frame[t] EXCEPT !.i = @ + 1, !.written = @ \cup {a}])
    /\ UNCHANGED <<live, adapter, cfgTest, pc, owned>>

\* zero's loop exit and `compiler_fence(SeqCst)`; zero returns.
ZeroFence(t) ==
    /\ pc[t] = "zero"
    /\ ~ZeroLoopCond(frame[t].i, ZeroCount(frame[t].layout))
    /\ Goto(t, NextPhase("zero"))
    /\ UNCHANGED <<mem, live, adapter, cfgTest, frame, owned>>

\* `self.0.deallocate(ptr.clone(), layout)` / `#[cfg(not(test))] self.0.dealloc(ptr, layout)`
Forward(t) ==
    /\ pc[t] = "forward"
    /\ LET f == frame[t]
           p == ForwardPtr(f.ptr)
           l == ForwardLayout(f.layout)
           name == IF adapter = "scoped" THEN "deallocate" ELSE "dealloc"
       IN IF ForwardCompiled
          THEN /\ live' = WrappedLiveAfterDealloc(p, l)
               /\ SetFrame(t, [f EXCEPT !.fwd = Append(@, Call(name, p, l))])
          ELSE UNCHANGED <<live, frame>>
    /\ Goto(t, NextPhase("forward"))
    /\ UNCHANGED <<mem, adapter, cfgTest, owned>>

\* Control is back in the caller.
Return(t) ==
    /\ pc[t] = "done"
    /\ SetFrame(t, NoFrame)
    /\ Goto(t, "idle")
    /\ UNCHANGED <<mem, live, adapter, cfgTest, owned>>

\* ------------------------------------------------------------- the caller
\* The holder of a block stores a byte into it (a.push(0xde) in test_static).
Write(t, b, off, v) ==
    /\ pc[t] = "idle"
    /\ b \in owned[t]
    /\ off \in 1..b.layout.size
    /\ mem' = [mem EXCEPT ![b.ptr + off - 1] = v]
    /\ owned' = [owned EXCEPT ![t] = (@ \ {b}) \cup {[b EXCEPT !.data[off] = v]}]
    /\ UNCHANGED <<live, adapter, cfgTest, pc, frame>>

Step(t) ==
    \/ \E l \in Layouts : Allocate(t, l)
    \/ \E l \in Layouts : Alloc(t, l)
    \/ \E l \in Layouts : AllocZeroed(t, l)
    \/ \E b \in owned[t] : Deallocate(t, b)
    \/ \E b \in owned[t] : Dealloc(t, b)
    \/ \E b \in owned[t], n \in 1..MaxSize : Realloc(t, b, n)
    \/ \E b \in owned[t], off \in 1..MaxSize, v \in Byte : Write(t, b, off, v)
    \/ ZeroStep(t)
    \/ ZeroFence(t)
    \/ Forward(t)
    \/ Return(t)

\* One caller: every call returns before the next is made.
Next == Step(MainThread)

Spec == Init /\ [][Next]_vars

\* Several threads on the same adapter, each running allocate / write /
\* deallocate on a block of its own, their steps interleaved.
ThreadStep(t) ==
    \/ \E l \in Layouts : owned[t] = {} /\ Allocate(t, l)
    \/ \E l \in Layouts : owned[t] = {} /\ Alloc(t, l)
    \/ \E b \in owned[t], off \in 1..MaxSize, v \in Byte : Write(t, b, off, v)
    \/ \E b \in owned[t] : Deallocate(t, b)
    \/ \E b \in owned[t] : Dealloc(t, b)
    \/ ZeroStep(t)
    \/ ZeroFence(t)
    \/ Forward(t)
    \/ Return(t)

NextConc == \E t \in Threads : ThreadStep(t)

SpecConc == Init /\ [][NextConc]_vars


\* ================================================================ properties
AllZero(m, ptr, size) == \A a \in Range(ptr, size) : m[a] = 0
HasNonZero(d) == \E k \in DOMAIN d : d[k] # 0

AllocOps == {"allocate", "alloc", "alloc_zeroed"}
FreeOps == {"deallocate", "dealloc"}

\* The free of a block is running or has just returned in thread t: a
\* deallocate / dealloc call, or the dealloc inside a resize that got its new block.
Freeing(t) ==
    \/ frame[t].op \in FreeOps
    \/ frame[t].op = "realloc" /\ frame[t].newPtr # Null

Freed(t) == pc[t] = "done" /\ Freeing(t)

\* The forwarded free calls A has received during thread t's current call.
FreesForwarded(t) == SelectSeq(frame[t].fwd, LAMBDA c : c.op \in FreeOps)

TheFree(t) ==
    Call(IF adapter = "scoped" THEN "deallocate" ELSE "dealloc",
         frame[t].ptr, frame[t].layout)

Intact(m, b) == Contents(m, b.ptr, b.layout.size) = b.data

OwnedBlocks == {[ptr |-> b.ptr, layout |-> b.layout] : b \in UNION {owned[t] : t \in Threads}}

Quiet == \A t \in Threads : pc[t] \in {"idle", "done"}

\* The step in which A receives a free call from thread t.
ForwardsIn(t) ==
    /\ pc[t] = "forward"
    /\ frame'[t].fwd # frame[t].fwd

\* ---------------------------------------------------------------------- C1
\* C1: on the scoped adapter, deallocate(ptr, layout) has stored zero to every
\* byte of [ptr, ptr + layout.size) before the wrapped allocator's deallocate
\* starts, that call carries the same ptr and layout, and exactly one such call
\* has been made when deallocate returns.
C1_ZeroThenForward ==
    /\ [][\A t \in Threads :
            (adapter = "scoped" /\ ForwardsIn(t)) =>
                /\ frame[t].written = Range(frame[t].ptr, frame[t].layout.size)
                /\ AllZero(mem, frame[t].ptr, frame[t].layout.size)
                /\ frame'[t].fwd = <<TheFree(t)>>]_vars
    /\ [](\A t \in Threads :
            (adapter = "scoped" /\ Freed(t)) => frame[t].fwd = <<TheFree(t)>>)

C1_Witness ==
    /\ adapter = "scoped"
    /\ Freed(MainThread)
    /\ frame[MainThread].layout.size = MaxSize
    /\ HasNonZero(frame[MainThread].old)
    /\ Len(frame[MainThread].fwd) = 1

\* ---------------------------------------------------------------------- C2
\* C2 as stated: on the global adapter, every dealloc(ptr, layout) that has
\* returned has zeroed the block and forwarded exactly one dealloc(ptr, layout)
\* to the wrapped allocator, which therefore no longer holds the block.
C2_Original ==
    \A t \in Threads :
        (adapter = "global" /\ Freed(t)) =>
            /\ AllZero(mem, frame[t].ptr, frame[t].layout.size)
            /\ FreesForwarded(t) = <<TheFree(t)>>
            /\ [ptr |-> frame[t].ptr, layout |-> frame[t].layout] \notin live

\* C2 amended: on the global adapter, dealloc(ptr, layout) zeroes the block
\* first; built without cfg(test) it then forwards exactly one
\* dealloc(ptr, layout) and the wrapped allocator takes the block back; built
\* with cfg(test) the forwarded call is compiled out, so no call reaches the
\* wrapped allocator and the zeroed block stays live there.
C2_Amended ==
    /\ [][\A t \in Threads :
            (adapter = "global" /\ ForwardsIn(t)) =>
                /\ ~cfgTest
                /\ AllZero(mem, frame[t].ptr, frame[t].layout.size)
                /\ FreesForwarded(t)' = <<TheFree(t)>>]_vars
    /\ [](\A t \in Threads :
            (adapter = "global" /\ Freed(t)) =>
                /\ AllZero(mem, frame[t].ptr, frame[t].layout.size)
                /\ FreesForwarded(t) = IF cfgTest THEN <<>> ELSE <<TheFree(t)>>
                /\ ([ptr |-> frame[t].ptr, layout |-> frame[t].layout] \in live) <=> cfgTest)

C2_Witness ==
    /\ adapter = "global"
    /\ ~cfgTest
    /\ pc[MainThread] = "done"
    /\ frame[MainThread].op = "dealloc"
    /\ HasNonZero(frame[MainThread].old)
    /\ frame[MainThread].fwd = <<TheFree(MainThread)>>

\* ---------------------------------------------------------------------- C3
\* C3: when deallocate / dealloc of a block of size > 0 returns, every byte of
\* the block reads 0, whatever the block held.
C3_ZeroOnReturn ==
    \A t \in Threads :
        (pc[t] = "done" /\ frame[t].op \in FreeOps /\ frame[t].layout.size > 0) =>
            AllZero(mem, frame[t].ptr, frame[t].layout.size)

C3_Witness ==
    /\ pc[MainThread] = "done"
    /\ frame[MainThread].op \in FreeOps
    /\ frame[MainThread].layout.size = MaxSize
    /\ \A k \in DOMAIN frame[MainThread].old : frame[MainThread].old[k] = MaxByte

\* ---------------------------------------------------------------------- C4
\* C4: a free writes only inside the block being freed: the addresses stored to
\* lie in [ptr, ptr + size), every block the caller still holds keeps its
\* bytes, and on return the freed block is all zero.
C4_FreeWritesOnlyTheBlock ==
    \A t \in Threads :
        Freeing(t) =>
            /\ frame[t].written \subseteq Range(frame[t].ptr, frame[t].layout.size)
            /\ \A b \in owned[t] : Intact(mem, b)
            /\ pc[t] = "done" => AllZero(mem, frame[t].ptr, frame[t].layout.size)

C4_Witness ==
    /\ Freed(MainThread)
    /\ frame[MainThread].op \in FreeOps
    /\ HasNonZero(frame[MainThread].old)
    /\ \E b \in owned[MainThread] :
          /\ b.ptr = frame[MainThread].ptr + frame[MainThread].layout.size
          /\ HasNonZero(b.data)


\* ---------------------------------------------------------------------- C5
\* C5: an allocation request returns what the wrapped allocator returned for
\* the same layout, failure (null / Err) included: the wrapped allocator is
\* called exactly once, the adapter stores nothing, and a failed request leaves
\* the wrapped allocator's live blocks as they were.
C5_AllocationResultUnchanged ==
    [][\A t \in Threads :
          (pc[t] = "idle" /\ pc'[t] = "done" /\ frame'[t].op \in AllocOps) =>
              LET f == frame'[t] IN
              /\ f.ret = f.wret
              /\ Len(f.fwd) = 1
              /\ f.fwd[1].layout = f.layout
              /\ f.written = {}
              /\ f.wret = Null => (live' = live /\ mem' = mem /\ owned' = owned)
              /\ f.wret # Null =>
                    /\ live' = live \cup {[ptr |-> f.ret, layout |-> f.layout]}
                    /\ \E b \in owned'[t] : b.ptr = f.wret /\ b.layout = f.layout]_vars

C5_Witness ==
    /\ pc[MainThread] = "done"
    /\ frame[MainThread].op \in AllocOps
    /\ frame[MainThread].wret = Null
    /\ frame[MainThread].ret = Null
    /\ live # {}

\* ---------------------------------------------------------------------- C6
\* C6: allocate / alloc / alloc_zeroed call the wrapped allocator's operation
\* of the same name with the same layout and store nothing: memory is as the
\* wrapped allocator left it (unchanged by allocate and alloc, changed by
\* alloc_zeroed only inside the block it returns), and the adapter's own
\* stores occur only while a block is being freed.
C6_NoWriteOnAllocation ==
    /\ [][\A t \in Threads :
            (pc[t] = "idle" /\ pc'[t] = "done" /\ frame'[t].op \in AllocOps) =>
                LET f == frame'[t] IN
                /\ f.fwd = <<Call(f.op, Null, f.layout)>>
                /\ f.written = {}
                /\ \A b \in owned[t] : Intact(mem', b)
                /\ IF f.op = "alloc_zeroed"
                   THEN \A a \in Addr :
                           mem'[a] # mem[a] => a \in Range(f.wret, f.layout.size)
                   ELSE mem' = mem]_vars
    /\ [](\A t \in Threads : frame[t].written # {} => Freeing(t))

C6_Witness ==
    /\ pc[MainThread] = "done"
    /\ frame[MainThread].op = "alloc"
    /\ frame[MainThread].ret # Null
    /\ frame[MainThread].layout.size = MaxSize
    /\ \A a \in Range(frame[MainThread].ret, MaxSize) : mem[a] # 0
    /\ owned[MainThread] # {}

C8_ResizeZeroesOldBlock ==
    \A t \in Threads :
        /\ (pc[t] = "done" /\ frame[t].op = "realloc" /\ frame[t].ret # Null) =>
              /\ AllZero(mem, frame[t].ptr, frame[t].layout.size)
              /\ \A k \in 1..Min(frame[t].layout.size, frame[t].newSize) :
                    mem[frame[t].newPtr + k - 1] = frame[t].old[k]
        /\ (pc[t] = "done" /\ frame[t].op = "dealloc" /\ frame[t].resized) =>
              AllZero(mem, frame[t].ptr, frame[t].layout.size)

C8_Witness ==
    /\ pc[MainThread] = "done"
    /\ frame[MainThread].op = "realloc"
    /\ frame[MainThread].ret # Null
    /\ frame[MainThread].newSize > frame[MainThread].layout.size
    /\ HasNonZero(frame[MainThread].old)

\* ---------------------------------------------------------------------- C9
\* C9: with several threads on the same adapter, each holding blocks of its
\* own, the bytes of a block a thread holds are never changed by another
\* thread's free, under every interleaving of the byte stores and the forwarded
\* calls (the wrapped allocator hands out no block that overlaps a live one).
C9_DisjointBlocksUndisturbed ==
    \A t \in Threads : \A b \in owned[t] : Intact(mem, b)

C9_Witness ==
    \E t, u \in Threads :
        /\ t # u
        /\ pc[t] = "zero"
        /\ frame[t].i = 1
        /\ frame[t].layout.size = MaxSize
        /\ \E b \in owned[u] : b.ptr = frame[t].ptr + MaxSize /\ HasNonZero(b.data)

\* --------------------------------------------------------------------- C10
\* What the adapter passes on for the call thread t has completed: the same
\* operation with the same arguments, once, and the same result back.
OneForOne(t) ==
    /\ frame[t].op \in AllocOps =>
          /\ frame[t].fwd = <<Call(frame[t].op, Null, frame[t].layout)>>
          /\ frame[t].ret = frame[t].wret
    /\ frame[t].op \in FreeOps => frame[t].fwd = <<TheFree(t)>>

\* C10 as stated: every completed allocate / deallocate call has reached the
\* wrapped allocator one for one, and between calls the wrapped allocator's
\* live blocks are exactly the blocks the callers hold.
C10_Original ==
    /\ \A t \in Threads : pc[t] = "done" => OneForOne(t)
    /\ Quiet => live = OwnedBlocks

\* C10 amended: the same, except for the global adapter built with cfg(test):
\* there dealloc is not forwarded, allocation requests still are one for one,
\* and the wrapped allocator keeps every freed block live beside the blocks
\* the callers hold.
C10_Amended ==
    /\ \A t \in Threads :
          pc[t] = "done" =>
              IF ForwardCompiled THEN OneForOne(t)
              ELSE /\ frame[t].op \in AllocOps => OneForOne(t)
                   /\ frame[t].op \in FreeOps => frame[t].fwd = <<>>
    /\ Quiet => IF ForwardCompiled THEN live = OwnedBlocks
                ELSE OwnedBlocks \subseteq live

C10_Witness ==
    /\ ForwardCompiled
    /\ pc[MainThread] = "done"
    /\ frame[MainThread].op \in FreeOps
    /\ frame[MainThread].layout.align = 2
    /\ owned[MainThread] # {}
    /\ live = OwnedBlocks

====
